---------------------------- MODULE Spec2Model ----------------------------
(***************************************************************************)
(* Model of the EPUB-to-text converter: the conversion pipeline            *)
(* convertEpubToText, the markup-to-text converter extractTextFromHtml     *)
(* (src/unnamed/part_000) and the App state machine around them            *)
(* (src/App.tsx).                                                          *)
(*                                                                         *)
(* A JavaScript string is a sequence of one-character strings, so that     *)
(* trim, split, includes, toLowerCase, replace and decodeURIComponent are  *)
(* computed character by character as the library computes them.           *)
(***************************************************************************)
EXTENDS Integers, Sequences, FiniteSets, TLC

VARIABLES
    appState,     \* App: useState<AppState>
    progress,     \* App: useState<number>
    error,        \* App: useState<string | null>
    book,         \* App: useState<ProcessedBook | null>
    file,         \* the File handed to the conversion in flight (NoFile when none)
    pc,           \* position of convertEpubToText between its awaits
    opfDir,       \* convertEpubToText: const opfDir
    meta,         \* convertEpubToText: title and author read from the OPF
    spine,        \* convertEpubToText: const spine (retained entries)
    i,            \* convertEpubToText: loop index
    fullText,     \* convertEpubToText: let fullText
    result,       \* settled promise of convertEpubToText (value or reason)
    progressLog,  \* observation: percentages passed to onProgress in this call
    outcomes,     \* observation: what the loop did with each retained entry
    html,         \* extractTextFromHtml: the parsed document given to it
    text          \* extractTextFromHtml: the value it returned (NoText before)

vars == <<appState, progress, error, book, file, pc, opfDir, meta, spine, i,
          fullText, result, progressLog, outcomes, html, text>>

appVars  == <<appState, progress, error, book>>
convVars == <<file, pc, opfDir, meta, spine, i, fullText, result, progressLog, outcomes>>
htmlVars == <<html, text>>

-----------------------------------------------------------------------------
(* Bounds of the model.                                                    *)

\* longest spine (number of itemref elements) of an OPF document
MaxSpine == 4
\* most child nodes of the body of a content document given to the converter
MaxKids == 3

-----------------------------------------------------------------------------
(* JavaScript strings.                                                     *)

NL == "\n"
SP == " "
\* U+2022, the bullet character of the list-item prefix
BULLET == "U+2022"
\* U+00A0, a white space character that is not the ASCII space
NBSP == "U+00A0"

\* WhiteSpace and LineTerminator of String.prototype.trim
IsWhiteSpace(c) == c \in {SP, NL, "\t", "\r", NBSP}

RECURSIVE TrimStart(_)
TrimStart(s) ==
    IF s # <<>> /\ IsWhiteSpace(Head(s)) THEN TrimStart(Tail(s)) ELSE s

RECURSIVE TrimEnd(_)
TrimEnd(s) ==
    IF s # <<>> /\ IsWhiteSpace(s[Len(s)])
    THEN TrimEnd(SubSeq(s, 1, Len(s) - 1))
    ELSE s

\* String.prototype.trim
Trim(s) == TrimEnd(TrimStart(s))

\* String.prototype.split('\n'): the lines of s, at least one
RECURSIVE SplitLines(_)
SplitLines(s) ==
    IF \A k \in 1..Len(s) : s[k] # NL
    THEN <<s>>
    ELSE LET k == CHOOSE j \in 1..Len(s) :
                      s[j] = NL /\ \A m \in 1..(j - 1) : s[m] # NL
         IN  <<SubSeq(s, 1, k - 1)>> \o SplitLines(SubSeq(s, k + 1, Len(s)))

\* Array.prototype.join('\n')
RECURSIVE JoinLines(_)
JoinLines(lines) ==
    IF lines = <<>> THEN <<>>
    ELSE IF Len(lines) = 1 THEN lines[1]
    ELSE lines[1] \o <<NL>> \o JoinLines(Tail(lines))

\* length of the run of newlines s starts with
RECURSIVE NewlineRun(_)
NewlineRun(s) ==
    IF s # <<>> /\ Head(s) = NL THEN 1 + NewlineRun(Tail(s)) ELSE 0

\* String.prototype.replace(/\n{3,}/g, '\n\n')
RECURSIVE CollapseNewlines(_)
CollapseNewlines(s) ==
    IF s = <<>> THEN <<>>
    ELSE LET n == NewlineRun(s)
         IN  IF n >= 3 THEN <<NL, NL>> \o CollapseNewlines(SubSeq(s, n + 1, Len(s)))
             ELSE IF n >= 1 THEN SubSeq(s, 1, n) \o CollapseNewlines(SubSeq(s, n + 1, Len(s)))
             ELSE <<Head(s)>> \o CollapseNewlines(Tail(s))

\* String.prototype.includes
Includes(s, sub) ==
    \E k \in 0..(Len(s) - Len(sub)) : SubSeq(s, k + 1, k + Len(sub)) = sub

\* String.prototype.endsWith
EndsWith(s, suffix) ==
    /\ Len(suffix) <= Len(s)
    /\ SubSeq(s, Len(s) - Len(suffix) + 1, Len(s)) = suffix

UpperCase == <<"A", "B", "C", "D", "E", "F", "G", "H", "I", "J", "K", "L", "M",
               "N", "O", "P", "Q", "R", "S", "T", "U", "V", "W", "X", "Y", "Z">>
LowerCase == <<"a", "b", "c", "d", "e", "f", "g", "h", "i", "j", "k", "l", "m",
               "n", "o", "p", "q", "r", "s", "t", "u", "v", "w", "x", "y", "z">>

LowerChar(c) ==
    IF \E k \in 1..Len(UpperCase) : UpperCase[k] = c
    THEN LowerCase[CHOOSE k \in 1..Len(UpperCase) : UpperCase[k] = c]
    ELSE c

\* String.prototype.toLowerCase
ToLowerCase(s) == [k \in 1..Len(s) |-> LowerChar(s[k])]

\* String.prototype.lastIndexOf('/'), 0-based, -1 when there is none
LastIndexOfSlash(s) ==
    IF \E k \in 1..Len(s) : s[k] = "/"
    THEN (CHOOSE k \in 1..Len(s) : s[k] = "/" /\ \A m \in (k + 1)..Len(s) : s[m] # "/") - 1
    ELSE -1

-----------------------------------------------------------------------------
(* extractTextFromHtml: the document tree the HTML parser hands over, and   *)
(* the conversion of it.                                                    *)

TextNode(s) ==
    [nodeType |-> "TEXT_NODE", tagName |-> <<>>, textContent |-> s, childNodes |-> <<>>]
CommentNode ==
    [nodeType |-> "COMMENT_NODE", tagName |-> <<>>, textContent |-> <<>>, childNodes |-> <<>>]
\* tagName of an element of an HTML document is in upper case
Element(tag, kids) ==
    [nodeType |-> "ELEMENT_NODE", tagName |-> tag, textContent |-> <<>>, childNodes |-> kids]

\* the selector 'script, style, link, meta, title, svg'
RemovedTags == { <<"s","c","r","i","p","t">>, <<"s","t","y","l","e">>, <<"l","i","n","k">>,
                 <<"m","e","t","a">>, <<"t","i","t","l","e">>, <<"s","v","g">> }

\* the tags of the block list of walk
BlockTags == { <<"p">>, <<"d","i","v">>, <<"h","1">>, <<"h","2">>, <<"h","3">>, <<"h","4">>,
               <<"h","5">>, <<"h","6">>, <<"l","i">>, <<"b","r">>, <<"h","r">>, <<"t","r">> }

IsRemoved(node) ==
    node.nodeType = "ELEMENT_NODE" /\ ToLowerCase(node.tagName) \in RemovedTags

\* scripts.forEach(node => node.remove()): the tree without the selected elements
RECURSIVE RemoveNodes(_)
RemoveNodes(node) ==
    LET kept == SelectSeq(node.childNodes, LAMBDA c : ~IsRemoved(c))
    IN  [node EXCEPT !.childNodes = [k \in 1..Len(kept) |-> RemoveNodes(kept[k])]]

walkPrefix(tagName) ==
    IF tagName \in BlockTags /\ tagName = <<"l","i">> THEN <<BULLET, SP>> ELSE <<>>

walkSuffix(tagName) ==
    IF tagName \in BlockTags
    THEN IF tagName = <<"p">> THEN <<NL, NL>>
         ELSE IF tagName = <<"b","r">> THEN <<NL>>
         ELSE IF tagName = <<"l","i">> THEN <<>>
         ELSE <<NL>>
    ELSE <<>>

RECURSIVE walk(_)
RECURSIVE walkChildren(_)
walkChildren(kids) ==
    IF kids = <<>> THEN <<>> ELSE walk(Head(kids)) \o walkChildren(Tail(kids))

walk(node) ==
    IF node.nodeType = "TEXT_NODE" THEN node.textContent
    ELSE IF node.nodeType = "ELEMENT_NODE"
    THEN LET tagName == ToLowerCase(node.tagName)
         IN  walkPrefix(tagName) \o walkChildren(node.childNodes) \o walkSuffix(tagName)
    ELSE <<>>

\* rawText.split('\n').map(line => line.trim()).join('\n')
TrimLines(s) ==
    LET lines == SplitLines(s)
    IN  JoinLines([k \in 1..Len(lines) |-> Trim(lines[k])])

\* body is the BODY element of the parsed document
extractTextFromHtml(body) ==
    Trim(TrimLines(CollapseNewlines(walk(RemoveNodes(body)))))


-----------------------------------------------------------------------------
(* The documents given to extractTextFromHtml.                              *)

P(kids)    == Element(<<"P">>, kids)
DIV(kids)  == Element(<<"D","I","V">>, kids)
LI(kids)   == Element(<<"L","I">>, kids)
UL(kids)   == Element(<<"U","L">>, kids)
BODY(kids) == Element(<<"B","O","D","Y">>, kids)

Hello == <<"H","e","l","l","o">>
World == <<"W","o","r","l","d">>
One   == <<"O","n","e">>
Two   == <<"T","w","o">>

\* text nodes: a word, a space, a newline (the indentation between two tags)
Texts == { <<"a">>, <<SP>>, <<NL>> }

LeafTags == { <<"P">>, <<"D","I","V">>, <<"L","I">>, <<"B","R">>, <<"S","P","A","N">>,
              <<"S","C","R","I","P","T">> }

\* child nodes of a body: text nodes, comments, elements with at most one text
\* child, and three nested elements
Blocks ==
    { TextNode(t) : t \in Texts }
    \cup { CommentNode }
    \cup { Element(tag, <<>>) : tag \in LeafTags }
    \cup { Element(tag, <<TextNode(t)>>) : tag \in LeafTags, t \in Texts }
    \cup { UL(<<LI(<<TextNode(One)>>), LI(<<TextNode(Two)>>)>>),
           DIV(<<P(<<TextNode(<<"a">>)>>), TextNode(<<NL, SP>>)>>),
           P(<<TextNode(<<NBSP>>)>>) }

RECURSIVE SeqsUpTo(_, _)
SeqsUpTo(S, n) ==
    IF n = 0 THEN { <<>> }
    ELSE LET shorter == SeqsUpTo(S, n - 1)
         IN  shorter \cup { Append(q, x) : q \in { r \in shorter : Len(r) = n - 1 }, x \in S }

\* the bodies with at most n child nodes
Docs(n) == { BODY(kids) : kids \in SeqsUpTo(Blocks, n) }

NoDoc  == BODY(<<>>)
Null   == <<>>
Some(v) == <<v>>

-----------------------------------------------------------------------------
(* decodeURIComponent.                                                      *)

HexDigits == <<"0", "1", "2", "3", "4", "5", "6", "7", "8", "9",
               "a", "b", "c", "d", "e", "f">>

IsHex(c) == \E k \in 1..16 : HexDigits[k] = LowerChar(c)
HexVal(c) == (CHOOSE k \in 1..16 : HexDigits[k] = LowerChar(c)) - 1

\* s starts with an escape %XX
IsEscape(s) == Len(s) >= 3 /\ s[1] = "%" /\ IsHex(s[2]) /\ IsHex(s[3])
EscapeByte(s) == 16 * HexVal(s[2]) + HexVal(s[3])

\* the character of a code point: the ones the model's paths use by name
CharOf(cp) ==
    CASE cp = 32 -> SP
      [] cp = 37 -> "%"
      [] cp = 47 -> "/"
      [] cp = 65 -> "A"
      [] OTHER   -> "U+" \o ToString(cp)

\* continuation bytes the lead byte b of a UTF-8 sequence asks for, -1 if b is no lead byte
Continuations(b) ==
    IF b < 128 THEN 0
    ELSE IF b >= 194 /\ b <= 223 THEN 1
    ELSE IF b >= 224 /\ b <= 239 THEN 2
    ELSE IF b >= 240 /\ b <= 244 THEN 3
    ELSE -1

LeadBits(b) ==
    IF b < 128 THEN b
    ELSE IF b <= 223 THEN b - 192
    ELSE IF b <= 239 THEN b - 224
    ELSE b - 240

\* the code point of the n continuation escapes s starts with, after acc; -1 if malformed
RECURSIVE Continue(_, _, _)
Continue(s, n, acc) ==
    IF n = 0 THEN acc
    ELSE IF IsEscape(s) /\ EscapeByte(s) >= 128 /\ EscapeByte(s) <= 191
    THEN Continue(SubSeq(s, 4, Len(s)), n - 1, 64 * acc + (EscapeByte(s) - 128))
    ELSE -1

WellFormedCodePoint(cp, n) ==
    /\ cp >= 0
    /\ n = 1 => cp >= 128
    /\ n = 2 => cp >= 2048 /\ ~(cp >= 55296 /\ cp <= 57343)
    /\ n = 3 => cp >= 65536 /\ cp <= 1114111

\* decodeURIComponent(s): the decoded string, or the URIError it throws
RECURSIVE decodeURIComponent(_)
decodeURIComponent(s) ==
    IF s = <<>> THEN [threw |-> FALSE, value |-> <<>>]
    ELSE IF Head(s) # "%"
    THEN LET rest == decodeURIComponent(Tail(s))
         IN  IF rest.threw THEN rest ELSE [rest EXCEPT !.value = <<Head(s)>> \o @]
    ELSE IF ~IsEscape(s) \/ Continuations(EscapeByte(s)) < 0
    THEN [threw |-> TRUE, value |-> <<>>]
    ELSE LET n  == Continuations(EscapeByte(s))
             cp == Continue(SubSeq(s, 4, Len(s)), n, LeadBits(EscapeByte(s)))
         IN  IF ~WellFormedCodePoint(cp, n)
             THEN [threw |-> TRUE, value |-> <<>>]
             ELSE LET rest == decodeURIComponent(SubSeq(s, 4 + 3 * n, Len(s)))
                  IN  IF rest.threw THEN rest
                      ELSE [rest EXCEPT !.value = <<CharOf(cp)>> \o @]

-----------------------------------------------------------------------------
(* The archive behind a File: the entries of the zip and the documents the  *)
(* XML parser makes of container.xml and of the OPF.                        *)

MediaType == "application/xhtml+xml"

Item(id, href, mediaType, properties) ==
    [id |-> id, href |-> href, mediaType |-> mediaType, properties |-> properties]

\* the manifest > item elements of the OPF, in document order; a missing
\* attribute reads as null and an empty one as '', both falsy: the empty string here
ManifestNodes == <<
    Item(<<"c","1">>, <<"o","l","d">>,             MediaType, <<>>),
    Item(<<"c","1">>, <<"c","1">>,                 MediaType, <<>>),
    Item(<<"c","2">>, <<"a","%","2","0","b">>,     MediaType, <<>>),
    Item(<<"n","v">>, <<"n">>,                     MediaType, <<"n","a","v",SP,"c","o","v","e","r","-","i","m","a","g","e">>),
    Item(<<"n","x">>, <<"x">>,                     MediaType, <<"x","n","a","v">>),
    Item(<<"t","c">>, <<"T","O","C">>,             MediaType, <<>>),
    Item(<<"c","t">>, <<"c","o","n","t","e","n","t","s">>, MediaType, <<"s","v","g">>),
    Item(<<"T","o","c">>, <<"t">>,                 MediaType, <<>>),
    Item(<<"b","l">>, <<"b","l">>,                 MediaType, <<>>),
    Item(<<"m","s">>, <<"m","s">>,                 MediaType, <<>>),
    Item(<<"b","d">>, <<"b","%">>,                 MediaType, <<>>),
    Item(<<"n","m">>, <<"c","1">>,                 "",        <<>>) >>

\* a name that is no item but a property every JavaScript object inherits
ValueOf == <<"v","a","l","u","e","O","f">>

\* the idref attributes the itemrefs of the generated spines are given: none ('')
\* and identifiers of the manifest
IdRefs == { <<>>, <<"c","1">>, <<"c","2">>, <<"n","v">>, <<"n","x">>, <<"t","c">>,
            <<"T","o","c">>, <<"b","l">>, <<"m","s">>, <<"b","d">> }

\* own properties of Object.prototype: manifestItems[key] finds them in any object
ObjectPrototypeKeys ==
    { ValueOf,
      <<"t","o","S","t","r","i","n","g">>,
      <<"c","o","n","s","t","r","u","c","t","o","r">>,
      <<"h","a","s","O","w","n","P","r","o","p","e","r","t","y">> }

\* the content documents of the archive, by entry path, as the HTML parser reads them
ContentEntry(path, kids) == [path |-> path, body |-> BODY(kids)]
ContentEntries == {
    ContentEntry(<<"O","/","c","1">>,     <<P(<<TextNode(Hello)>>), P(<<TextNode(World)>>)>>),
    ContentEntry(<<"O","/","a",SP,"b">>,  <<TextNode(<<NL>>), DIV(<<TextNode(<<"A">>)>>), TextNode(<<NL>>)>>),
    ContentEntry(<<"O","/","T","O","C">>, <<P(<<TextNode(<<"B">>)>>)>>),
    ContentEntry(<<"O","/","n">>,         <<LI(<<TextNode(One)>>)>>),
    ContentEntry(<<"O","/","x">>,         <<P(<<TextNode(<<"X">>)>>)>>),
    ContentEntry(<<"O","/","c","o","n","t","e","n","t","s">>, <<P(<<TextNode(<<"C">>)>>)>>),
    ContentEntry(<<"O","/","t">>,         <<P(<<TextNode(<<"D">>)>>)>>),
    ContentEntry(<<"O","/","b","l">>,     <<P(<<TextNode(<<NBSP>>)>>), TextNode(<<NL>>)>>),
    ContentEntry(<<"m","s">>,             <<P(<<TextNode(<<"M">>)>>)>>) }

EpubName == <<"b",".","e","p","u","b">>
TxtName  == <<"b",".","t","x","t">>
EpubType == "application/epub+zip"

OpfInDir == <<"O","/","c",".","o","p","f">>
OpfAtTop == <<"c",".","o","p","f">>

Title   == <<"T">>
Creator == <<"W">>

\* A File and the archive in it:
\*   isZip      JSZip can load the bytes
\*   container  META-INF/container.xml: "absent", or what the parsed document holds:
\*              "noRootfile", "rootfile"
\*   fullPath   the full-path attribute of the rootfile ('' when missing or empty)
\*   opf        the entry at fullPath: "absent", "malformed" (not well-formed XML), "ok"
\*   title, creator   text of metadata > title and metadata > creator ('' when absent)
\*   itemrefs   the idref attributes of spine > itemref, in document order
EpubFile(name, type, isZip, container, fullPath, opf, title, creator, itemrefs) ==
    [name |-> name, type |-> type, isZip |-> isZip, container |-> container,
     fullPath |-> fullPath, opf |-> opf, title |-> title, creator |-> creator,
     itemrefs |-> itemrefs]

GoodFile(itemrefs) ==
    EpubFile(EpubName, EpubType, TRUE, "rootfile", OpfInDir, "ok", Title, Creator, itemrefs)

Spines == SeqsUpTo(IdRefs, MaxSpine)

\* spines of the files that differ from a good file in something else
FewSpines == { <<>>,
               << <<"c","1">> >>,
               << <<"c","2">>, <<"n","v">>, <<"m","s">> >>,
               << <<"c","t">>, <<"c","1">>, <<"c","2">>, <<"c","t">> >>,
               << <<"c","1">>, <<"n","m">>, ValueOf >> }

\* a spine of seven entries, on which the interpolation of the progress rounds:
\* included, heuristic, nav, missing, blank, included, included
LongSpine == << <<"c","1">>, <<"t","c">>, <<"n","v">>, <<"m","s">>, <<"b","l">>,
                <<"c","2">>, <<"T","o","c">> >>

Files ==
    { GoodFile(s) : s \in Spines \cup {LongSpine} }
    \cup { EpubFile(name, type, isZip, container, fullPath, opf, title, Creator, s) :
             name \in {EpubName}, type \in {EpubType, ""}, isZip \in BOOLEAN,
             container \in {"absent", "noRootfile", "rootfile"},
             fullPath \in {<<>>, OpfInDir, OpfAtTop},
             opf \in {"absent", "malformed", "ok"},
             title \in {<<>>, Title},
             s \in FewSpines }
    \cup { EpubFile(TxtName, type, TRUE, "rootfile", OpfInDir, "ok", Title, Creator, <<>>) :
             type \in {EpubType, ""} }

NoFile == EpubFile(<<>>, "", FALSE, "absent", <<>>, "absent", <<>>, <<>>, <<>>)

-----------------------------------------------------------------------------
(* convertEpubToText.                                                       *)

\* loadedZip.file(path) for a content document: the entry, or null
ZipHas(path) == \E e \in ContentEntries : e.path = path
ZipFile(path) == CHOOSE e \in ContentEntries : e.path = path

\* Math.round(n / d) for n >= 0, d > 0
Round(n, d) == (2 * n + d) \div (2 * d)

\* the interpolation running over 90 points, and up to the end of the entry
progressPercent_Scaled(idx, totalItems) == 30 + Round((idx + 1) * 90, totalItems)

\* 30 + Math.round((i / totalItems) * 60)
progressPercent(idx, totalItems) == 30 + Round(idx * 60, totalItems)

\* the separator appended after the text of a chapter
DashCount == 48
Dashes == [k \in 1..DashCount |-> "-"]
Separator == <<NL, NL>> \o Dashes \o <<NL, NL>>

\* if (id && href && mediaType)
IsComplete(node) == node.id # <<>> /\ node.href # <<>> /\ node.mediaType # ""

\* manifestItems has an own property id: some complete item element has that id
HasItem(nodes, id) == \E k \in 1..Len(nodes) : IsComplete(nodes[k]) /\ nodes[k].id = id

\* manifestItems[id] when it is an own property: the last complete item element with that id
ManifestItem(nodes, id) ==
    nodes[CHOOSE k \in 1..Len(nodes) :
              /\ IsComplete(nodes[k]) /\ nodes[k].id = id
              /\ \A m \in (k + 1)..Len(nodes) : ~(IsComplete(nodes[m]) /\ nodes[m].id = id)]

\* item.idref && manifestItems[item.idref]
IsRetained(nodes, idref) ==
    idref # <<>> /\ (HasItem(nodes, idref) \/ idref \in ObjectPrototypeKeys)

\* the spine: the itemrefs that pass the filter, in order
RetainedSpine(nodes, itemrefs) == SelectSeq(itemrefs, LAMBDA r : IsRetained(nodes, r))

\* item.properties && item.properties.includes('nav')
IsNav(item) == item.properties # <<>> /\ Includes(item.properties, <<"n","a","v">>)

\* the bound of the check off by one
isEarly_Wide(idx) == idx <= 3

\* const isEarly = i < 3
isEarly(idx) == idx < 3

\* isEarly && (lowerHref.includes('toc') || lowerHref.includes('contents') || lowerId.includes('toc'))
IsLikelyToc(idx, item) ==
    LET lowerHref == ToLowerCase(item.href)
        lowerId   == ToLowerCase(item.id)
    IN  isEarly(idx) /\ ( \/ Includes(lowerHref, <<"t","o","c">>)
                          \/ Includes(lowerHref, <<"c","o","n","t","e","n","t","s">>)
                          \/ Includes(lowerId, <<"t","o","c">>) )

\* const opfDir = fullPath.substring(0, fullPath.lastIndexOf('/') + 1)
OpfDirOf(fullPath) == SubSeq(fullPath, 1, LastIndexOfSlash(fullPath) + 1)

Pending == [status |-> "pending", value |-> Null, reason |-> ""]
Fulfilled(value) == [status |-> "fulfilled", value |-> value, reason |-> ""]
Rejected(reason) == [status |-> "rejected", value |-> Null, reason |-> reason]

\* the elements the queries on opfDoc find. A document that is not well-formed
\* does not make parseFromString throw: it returns a document with a parsererror
\* element, holding nothing of the OPF or what was parsed before the error.
OpfViews(f) ==
    IF f.opf = "ok"
    THEN { [title |-> f.title, creator |-> f.creator, items |-> ManifestNodes,
            itemrefs |-> f.itemrefs] }
    ELSE { [title |-> <<>>, creator |-> <<>>, items |-> <<>>, itemrefs |-> <<>>] }
         \cup { [title |-> f.title, creator |-> f.creator, items |-> ManifestNodes,
                 itemrefs |-> SubSeq(f.itemrefs, 1, k)] : k \in 0..(Len(f.itemrefs) - 1) }

\* what one iteration of the loop does with entry idx (0-based) of the spine:
\*   kind   "nav", "heuristic": skipped by the classifier; "missing": no such entry
\*          in the archive; "blank", "included": converted; "threw": an exception
\*   text   the converted text
\*   append what is added to fullText
Outcome(kind, txt, append) == [kind |-> kind, text |-> txt, append |-> append]
Observed(idref, idx, o) ==
    [idref |-> idref, index |-> idx, kind |-> o.kind, text |-> o.text, append |-> o.append]

Iteration(dir, nodes, idref, idx) ==
    IF ~HasItem(nodes, idref)
    THEN \* an inherited property of the object: a function, whose href is undefined
         Outcome("threw", <<>>, <<>>)
    ELSE LET item == ManifestItem(nodes, idref)
         IN  IF IsNav(item) THEN Outcome("nav", <<>>, <<>>)
             ELSE IF IsLikelyToc(idx, item) THEN Outcome("heuristic", <<>>, <<>>)
             ELSE LET decodedPath == decodeURIComponent(dir \o item.href)
                  IN  IF decodedPath.threw THEN Outcome("threw", <<>>, <<>>)
                      ELSE IF ~ZipHas(decodedPath.value) THEN Outcome("missing", <<>>, <<>>)
                      ELSE LET txt == extractTextFromHtml(ZipFile(decodedPath.value).body)
                           IN  IF Len(Trim(txt)) > 0
                               THEN Outcome("included", txt, txt \o Separator)
                               ELSE Outcome("blank", txt, <<>>)

ThrownBy(nodes, idref) ==
    IF HasItem(nodes, idref) THEN "URI malformed"
    ELSE "Cannot read properties of undefined (reading 'toLowerCase')"

ProcessedBook(filename, title, author, content, size) ==
    [filename |-> filename, title |-> title, author |-> author,
     content |-> content, size |-> size]

NoMeta == [title |-> <<>>, author |-> <<>>, items |-> <<>>]

\* the call settles: the locals are gone
Settle(r) ==
    /\ pc' = "settled"
    /\ result' = r
    /\ opfDir' = <<>>
    /\ meta' = NoMeta
    /\ spine' = <<>>
    /\ i' = 0
    /\ fullText' = <<>>

\* onProgress = updateProgress: setProgress(pct)
onProgress(pct) ==
    /\ progress' = pct
    /\ progressLog' = Append(progressLog, pct)

\* lines 11-18: loadAsync settles; the container entry is looked up
LoadContainer ==
    /\ pc = "loadAsync"
    /\ IF ~file.isZip
       THEN Settle(Rejected("Can't find end of central directory : is this a zip file ?"))
       ELSE IF file.container = "absent"
       THEN Settle(Rejected("Invalid EPUB: Missing META-INF/container.xml"))
       ELSE /\ pc' = "containerAsync"
            /\ UNCHANGED <<opfDir, meta, spine, i, fullText, result>>
    /\ UNCHANGED <<appState, progress, error, book, file, progressLog, outcomes, htmlVars>>

\* the check of the full-path attribute left out
ResolveContainer_NoPathCheck ==
    /\ pc = "containerAsync"
    /\ IF file.container = "noRootfile"
       THEN /\ Settle(Rejected("Invalid EPUB: No rootfile in container.xml"))
            /\ UNCHANGED <<progress, progressLog>>
       ELSE /\ onProgress(20)
            /\ IF file.opf = "absent"
               THEN Settle(Rejected("Invalid EPUB: OPF file missing"))
               ELSE /\ pc' = "opfAsync"
                    /\ opfDir' = OpfDirOf(file.fullPath)
                    /\ UNCHANGED <<meta, spine, i, fullText, result>>
    /\ UNCHANGED <<appState, error, book, file, outcomes, htmlVars>>

\* lines 18-36: container.xml is parsed and the OPF entry is looked up
ResolveContainer ==
    /\ pc = "containerAsync"
    /\ IF file.container = "noRootfile"
       THEN /\ Settle(Rejected("Invalid EPUB: No rootfile in container.xml"))
            /\ UNCHANGED <<progress, progressLog>>
       ELSE IF file.fullPath = <<>>
       THEN /\ Settle(Rejected("Invalid EPUB: rootfile path is missing"))
            /\ UNCHANGED <<progress, progressLog>>
       ELSE /\ onProgress(20)
            /\ IF file.opf = "absent"
               THEN Settle(Rejected("Invalid EPUB: OPF file missing"))
               ELSE /\ pc' = "opfAsync"
                    /\ opfDir' = OpfDirOf(file.fullPath)
                    /\ UNCHANGED <<meta, spine, i, fullText, result>>
    /\ UNCHANGED <<appState, error, book, file, outcomes, htmlVars>>

\* lines 36-64: the OPF is parsed: metadata, manifest, spine
ParseOpf ==
    /\ pc = "opfAsync"
    /\ \E doc \in OpfViews(file) :
          /\ meta' = [title  |-> IF doc.title # <<>> THEN doc.title ELSE <<"Untitled">>,
                      author |-> IF doc.creator # <<>> THEN doc.creator ELSE <<"Unknown Author">>,
                      items  |-> doc.items]
          /\ spine' = RetainedSpine(doc.items, doc.itemrefs)
    /\ fullText' = <<>>
    /\ i' = 0
    /\ pc' = "loop"
    /\ UNCHANGED <<appVars, file, opfDir, result, progressLog, outcomes, htmlVars>>

\* lines 66-110: one iteration of the loop
ProcessSpineItem ==
    /\ pc = "loop"
    /\ i < Len(spine)
    /\ onProgress(progressPercent(i, Len(spine)))
    /\ LET o == Iteration(opfDir, meta.items, spine[i + 1], i)
       IN  /\ outcomes' = Append(outcomes, Observed(spine[i + 1], i, o))
           /\ IF o.kind = "threw"
              THEN Settle(Rejected(ThrownBy(meta.items, spine[i + 1])))
              ELSE /\ fullText' = fullText \o o.append
                   /\ i' = i + 1
                   /\ UNCHANGED <<pc, opfDir, meta, spine, result>>
    /\ UNCHANGED <<appState, error, book, file, htmlVars>>

\* the content returned as accumulated, not trimmed
Finalize_Untrimmed ==
    /\ pc = "loop"
    /\ i >= Len(spine)
    /\ onProgress(100)
    /\ Settle(Fulfilled(ProcessedBook(file.name, meta.title, meta.author,
                                      fullText, Len(fullText))))
    /\ UNCHANGED <<appState, error, book, file, outcomes, htmlVars>>

\* lines 112-120: the loop is over
Finalize ==
    /\ pc = "loop"
    /\ i >= Len(spine)
    /\ onProgress(100)
    /\ Settle(Fulfilled(ProcessedBook(file.name, meta.title, meta.author,
                                      Trim(fullText), Len(fullText))))
    /\ UNCHANGED <<appState, error, book, file, outcomes, htmlVars>>

-----------------------------------------------------------------------------
(* App. progressMessage, which no handler reads, is left out; the state     *)
(* updates a handler makes before it yields are one step.                   *)

IDLE       == "IDLE"
PROCESSING == "PROCESSING"
COMPLETED  == "COMPLETED"
ERROR      == "ERROR"

\* the file input is rendered in the IDLE state only
UploadRendered == appState = IDLE
\* the reset buttons ("Convert Another", "Try Again") are rendered in these states
ResetRendered == (appState = COMPLETED /\ book # Null) \/ appState = ERROR

\* file.type !== "application/epub+zip" && !file.name.endsWith('.epub')
IsRejectedType(f) == f.type # EpubType /\ ~EndsWith(f.name, <<".","e","p","u","b">>)

\* handleFileUpload: no file in the event
UploadNothing ==
    /\ UploadRendered
    /\ UNCHANGED vars

\* handleFileUpload: a file that is no .epub
UploadInvalid ==
    /\ UploadRendered
    /\ \E f \in Files :
          /\ IsRejectedType(f)
          /\ error' = Some("Please upload a valid .epub file.")
          /\ appState' = ERROR
    /\ UNCHANGED <<progress, book, convVars, htmlVars>>

\* handleFileUpload up to its await: the state is set and convertEpubToText runs
\* up to zip.loadAsync
UploadEpub ==
    /\ UploadRendered
    /\ \E f \in Files :
          /\ ~IsRejectedType(f)
          /\ file' = f
    /\ appState' = PROCESSING
    /\ error' = Null
    /\ progress' = 10
    /\ progressLog' = <<10>>
    /\ outcomes' = <<>>
    /\ result' = Pending
    /\ pc' = "loadAsync"
    /\ UNCHANGED <<book, opfDir, meta, spine, i, fullText, htmlVars>>

\* handleFileUpload after its await: setBook(result); setAppState(COMPLETED)
ConversionSucceeded ==
    /\ pc = "settled"
    /\ result.status = "fulfilled"
    /\ book' = Some(result.value)
    /\ appState' = COMPLETED
    /\ pc' = "idle"
    /\ UNCHANGED <<progress, error, file, opfDir, meta, spine, i, fullText, result,
                   progressLog, outcomes, htmlVars>>

\* handleFileUpload, catch: setError(err.message || ...); setAppState(ERROR)
ConversionFailed ==
    /\ pc = "settled"
    /\ result.status = "rejected"
    /\ error' = Some(IF result.reason # "" THEN result.reason
                     ELSE "Failed to parse EPUB file. It might be corrupted or DRM-protected.")
    /\ appState' = ERROR
    /\ pc' = "idle"
    /\ UNCHANGED <<progress, book, file, opfDir, meta, spine, i, fullText, result,
                   progressLog, outcomes, htmlVars>>

\* setBook(null) left out
handleReset_KeepBook ==
    /\ ResetRendered
    /\ appState' = IDLE
    /\ error' = Null
    /\ progress' = 0
    /\ file' = NoFile
    /\ result' = Pending
    /\ progressLog' = <<>>
    /\ outcomes' = <<>>
    /\ UNCHANGED <<book, pc, opfDir, meta, spine, i, fullText, htmlVars>>

\* handleReset. What was observed of the conversion shown goes with it.
handleReset ==
    /\ ResetRendered
    /\ appState' = IDLE
    /\ book' = Null
    /\ error' = Null
    /\ progress' = 0
    /\ file' = NoFile
    /\ result' = Pending
    /\ progressLog' = <<>>
    /\ outcomes' = <<>>
    /\ UNCHANGED <<pc, opfDir, meta, spine, i, fullText, htmlVars>>

-----------------------------------------------------------------------------
(* The application: uploads, conversions and resets.                        *)

NoText == [returned |-> FALSE, value |-> <<>>]

InitApp ==
    /\ appState = IDLE
    /\ progress = 0
    /\ error = Null
    /\ book = Null

InitConv ==
    /\ file = NoFile
    /\ pc = "idle"
    /\ opfDir = <<>>
    /\ meta = NoMeta
    /\ spine = <<>>
    /\ i = 0
    /\ fullText = <<>>
    /\ result = Pending
    /\ progressLog = <<>>
    /\ outcomes = <<>>

Init ==
    /\ InitApp
    /\ InitConv
    /\ html = NoDoc
    /\ text = NoText

Next ==
    \/ UploadNothing
    \/ UploadInvalid
    \/ UploadEpub
    \/ LoadContainer
    \/ ResolveContainer
    \/ ParseOpf
    \/ ProcessSpineItem
    \/ Finalize
    \/ ConversionSucceeded
    \/ ConversionFailed
    \/ handleReset

Spec == Init /\ [][Next]_vars

-----------------------------------------------------------------------------
(* The markup-to-text converter alone, on every document of Docs(MaxKids).  *)

InitHtml ==
    /\ InitApp
    /\ InitConv
    /\ html \in Docs(MaxKids)
    /\ text = NoText

Extract ==
    /\ ~text.returned
    /\ text' = [returned |-> TRUE, value |-> extractTextFromHtml(html)]
    /\ UNCHANGED <<appVars, convVars, html>>

NextHtml == Extract

SpecHtml == InitHtml /\ [][NextHtml]_vars

-----------------------------------------------------------------------------
(* Properties of the conversion.                                            *)

Returned  == result.status = "fulfilled"
Threw     == result.status = "rejected"
Content   == result.value.content

Kinds == { outcomes[k].kind : k \in 1..Len(outcomes) }

\* the texts of the included documents, in reading order
IncludedTexts ==
    LET inc == SelectSeq(outcomes, LAMBDA o : o.kind = "included")
    IN  [k \in 1..Len(inc) |-> inc[k].text]

RECURSIVE JoinWith(_, _)
JoinWith(texts, sep) ==
    IF texts = <<>> THEN <<>>
    ELSE IF Len(texts) = 1 THEN texts[1]
    ELSE texts[1] \o sep \o JoinWith(Tail(texts), sep)

\* C1: the percentages passed to the progress callback in one call never
\* decrease, each lies in 0..100, and when the call returns the last one is 100.
C1_ProgressMonotone ==
    /\ \A k \in 1..Len(progressLog) : progressLog[k] >= 0 /\ progressLog[k] <= 100
    /\ \A k \in 1..(Len(progressLog) - 1) : progressLog[k] <= progressLog[k + 1]
    /\ Returned => progressLog[Len(progressLog)] = 100

\* a call that returned after seven entries, skipped, missing, blank and
\* included ones, with percentages that were rounded up and down
C1_Witness ==
    /\ Returned
    /\ {"nav", "heuristic", "missing", "blank", "included"} \subseteq Kinds
    /\ progressLog = <<10, 20, 30, 39, 47, 56, 64, 73, 81, 100>>

\* C2, as claimed: the content is the included texts with the separator between
\* two of them and nothing after the last.
C2_SeparatorOnlyBetween ==
    (Returned /\ IncludedTexts # <<>>) => Content = JoinWith(IncludedTexts, Separator)

\* C2, amended: the separator follows every included text, the last as well,
\* and the trim of the end takes only the blank lines after the last dash line:
\* the content is T1 + separator + ... + Tn + two newlines + the dash line.
C2_SeparatorAfterEach ==
    (Returned /\ IncludedTexts # <<>>) =>
        Content = JoinWith(IncludedTexts, Separator) \o <<NL, NL>> \o Dashes

\* two chapters "A" and "B" were included and the call returned
C2_Witness ==
    /\ Returned
    /\ IncludedTexts = << <<"A">>, <<"B">> >>

ItemOf(o) == ManifestItem(ManifestNodes, o.idref)

\* C5: an entry whose item has "nav" in its properties is skipped at any
\* position and adds nothing; an entry at position >= 3 without it is never
\* skipped by the classifier, whatever its path and identifier; a book whose
\* only entry is a nav item has empty content.
C5_NavAlwaysEarlyOnly ==
    /\ \A k \in 1..Len(outcomes) :
          LET o == outcomes[k]
          IN  HasItem(ManifestNodes, o.idref) =>
                /\ Includes(ItemOf(o).properties, <<"n","a","v">>) =>
                      (o.kind = "nav" /\ o.append = <<>>)
                /\ (o.index >= 3 /\ ~Includes(ItemOf(o).properties, <<"n","a","v">>)) =>
                      o.kind \notin {"nav", "heuristic"}
    /\ (Returned /\ Len(outcomes) = 1 /\ outcomes[1].idref = <<"n","v">>) => Content = <<>>

\* the item with href "TOC" was converted at position 3, after a nav item was skipped
C5_Witness ==
    /\ Len(outcomes) = 4
    /\ outcomes[4].idref = <<"t","c">> /\ outcomes[4].kind = "included"
    /\ outcomes[3].idref = <<"n","v">> /\ outcomes[3].kind = "nav"

\* the messages of the errors the spec calls MalformedContainer
MalformedContainer ==
    { "Invalid EPUB: Missing META-INF/container.xml",
      "Invalid EPUB: No rootfile in container.xml",
      "Invalid EPUB: rootfile path is missing" }

\* the messages of the errors the spec calls MalformedManifest
MalformedManifest == { "Invalid EPUB: OPF file missing" }

InFlightOrShown == file # NoFile

BadContainer ==
    \/ file.container = "absent"
    \/ file.container = "noRootfile"
    \/ file.fullPath = <<>>

\* C6: with no container.xml, no rootfile or no full-path, the conversion of
\* an archive fails with MalformedContainer: it returns no book, never comes
\* to read the manifest, and reports no progress but the first 10.
C6_MalformedContainer ==
    (InFlightOrShown /\ file.isZip /\ BadContainer) =>
        /\ ~Returned
        /\ book = Null
        /\ pc \notin {"opfAsync", "loop"}
        /\ \A k \in 1..Len(progressLog) : progressLog[k] = 10
        /\ Len(progressLog) <= 1
        /\ Threw => result.reason \in MalformedContainer
        /\ pc \in {"settled", "idle"} => Threw

\* the rootfile had no full-path and the App shows the error
C6_Witness ==
    /\ InFlightOrShown /\ file.isZip
    /\ file.container = "rootfile" /\ file.fullPath = <<>>
    /\ Threw
    /\ appState = ERROR

\* C7: with the OPF missing from the archive or not parseable as XML the
\* conversion fails with MalformedManifest and returns no book.
C7_MalformedManifest ==
    (InFlightOrShown /\ file.isZip /\ ~BadContainer /\ file.opf \in {"absent", "malformed"}) =>
        /\ ~Returned
        /\ Threw => result.reason \in MalformedManifest

\* C8: once container and manifest are parsed, nothing about a single entry
\* aborts the conversion: no iteration throws and the call is not rejected.
C8_NoEntryAborts ==
    (InFlightOrShown /\ file.opf = "ok") =>
        /\ \A k \in 1..Len(outcomes) : outcomes[k].kind # "threw"
        /\ Threw => outcomes = <<>>

\* String.prototype.split(' ') as the spec reads the properties: the tokens
RECURSIVE Tokens(_)
Tokens(s) ==
    IF \A k \in 1..Len(s) : s[k] # SP
    THEN { s }
    ELSE LET k == CHOOSE j \in 1..Len(s) : s[j] = SP /\ \A m \in 1..(j - 1) : s[m] # SP
         IN  { SubSeq(s, 1, k - 1) } \cup Tokens(SubSeq(s, k + 1, Len(s)))

\* the rule of the spec: the token "nav", or an early position and a path or
\* identifier that looks like a table of contents
SpecSkips(position, item) ==
    \/ <<"n","a","v">> \in Tokens(item.properties)
    \/ /\ position < 3
       /\ \/ Includes(ToLowerCase(item.href), <<"t","o","c">>)
          \/ Includes(ToLowerCase(item.href), <<"c","o","n","t","e","n","t","s">>)
          \/ Includes(ToLowerCase(item.id), <<"t","o","c">>)

\* C9: the classifier skips an entry exactly when the rule of the spec does.
C9_ClassifierIsSpecRule ==
    \A k \in 1..Len(outcomes) :
        LET o == outcomes[k]
        IN  HasItem(ManifestNodes, o.idref) =>
               ((o.kind \in {"nav", "heuristic"}) <=> SpecSkips(o.index, ItemOf(o)))

-----------------------------------------------------------------------------
(* Properties of the App.                                                   *)

C10_State ==
    /\ appState = COMPLETED => (book # Null /\ Returned /\ book = Some(result.value))
    /\ appState = ERROR => error # Null
    /\ pc # "idle" <=> appState = PROCESSING

C10_Step ==
    /\ (appState # PROCESSING /\ appState' = PROCESSING) => (appState = IDLE /\ pc = "idle")
    /\ (appState = PROCESSING /\ appState' # PROCESSING) =>
          (pc = "settled" /\ appState' \in {COMPLETED, ERROR})
    /\ (appState \in {COMPLETED, ERROR} /\ appState' # appState) =>
          (appState' = IDLE /\ book' = Null /\ error' = Null /\ progress' = 0)

\* C10: COMPLETED only with the book of the most recent conversion held, ERROR
\* only with an error message held; a conversion is in flight exactly in
\* PROCESSING, starts from IDLE only and ends in COMPLETED or ERROR; a reset
\* leads to IDLE with book and error cleared and progress 0.
C10_AppStateMachine == [](C10_State) /\ [][C10_Step]_vars

\* a book is shown
C10_Witness ==
    /\ appState = COMPLETED
    /\ book # Null
    /\ book[1].content # <<>>

-----------------------------------------------------------------------------
(* Properties of the markup-to-text converter.                              *)

ScenarioD == BODY(<<UL(<<LI(<<TextNode(One)>>), LI(<<TextNode(Two)>>)>>)>>)

Count(s, c) == Cardinality({ k \in 1..Len(s) : s[k] = c })

\* C3: every list item gives the bullet prefix, its text and a newline, so
\* that no line holds two items, and the two items of scenario D give the
\* bullet, "One", a newline, the bullet, "Two".
C3_ListItemsOnSeparateLines ==
    text.returned =>
        /\ \A k \in 1..Len(SplitLines(text.value)) :
              Count(SplitLines(text.value)[k], BULLET) <= 1
        /\ html = ScenarioD =>
              text.value = <<BULLET, SP>> \o One \o <<NL, BULLET, SP>> \o Two

\* C4: the text returned has no run of three or more newlines, and none of its
\* lines starts or ends with white space.
C4_Normalized ==
    text.returned =>
        /\ ~Includes(text.value, <<NL, NL, NL>>)
        /\ \A k \in 1..Len(SplitLines(text.value)) :
              Trim(SplitLines(text.value)[k]) = SplitLines(text.value)[k]
=============================================================================
